---------------------------- MODULE Spec2Model ----------------------------
(***************************************************************************)
(* A model of stock_scraper.py: the policy construction (extract_domains), *)
(* the stabilization loop (Scraper.get_loaded_page), the match evaluation  *)
(* (Scraper.check_stock) and the sweep loop of main.                       *)
(***************************************************************************)
EXTENDS Integers, Sequences, FiniteSets, TLC

(***************************************************************************)
(* Python values.  A str field that may hold None is a TLA+ string with    *)
(* PyNone standing for None; value_ is a tagged record because it holds    *)
(* None, a raw str or a compiled pattern over the life of a policy.        *)
(***************************************************************************)
PyNone == "<None>"

\* bool(s) of a str-or-None field: None and "" are falsy
Truthy(s) == s # PyNone /\ s # ""

NoneVal == [t |-> "None", s |-> <<>>, prog |-> <<>>]
StrVal(chars) == [t |-> "str", s |-> chars, prog |-> <<>>]
PatternVal(chars, prog) == [t |-> "Pattern", s |-> chars, prog |-> prog]

\* bool(v) of a value_ field: None and "" are falsy, a compiled pattern is truthy
TruthyVal(v) == v.t = "Pattern" \/ (v.t = "str" /\ v.s # <<>>)

(***************************************************************************)
(* Regular expressions: re.compile on a string of literals, '.', '*' and   *)
(* '(' and pattern.search on a text.  An item is a character class (one    *)
(* literal, or "." for any character) with an optional star.  A '(' opens  *)
(* a group that nothing closes in this alphabet: re.compile raises         *)
(* re.error.                                                               *)
(***************************************************************************)
RECURSIVE RegexItems(_, _)
RegexItems(chars, i) ==
    IF i > Len(chars) THEN <<>>
    ELSE IF i < Len(chars) /\ chars[i + 1] = "*"
         THEN <<[c |-> chars[i], star |-> TRUE]>> \o RegexItems(chars, i + 2)
         ELSE <<[c |-> chars[i], star |-> FALSE]>> \o RegexItems(chars, i + 1)

\* re.compile(chars): [ok |-> FALSE] stands for re.error
ReCompile(chars) ==
    IF (\E i \in 1..Len(chars) : chars[i] = "(") \/ (Len(chars) > 0 /\ chars[1] = "*")
    THEN [ok |-> FALSE, prog |-> <<>>]
    ELSE [ok |-> TRUE, prog |-> RegexItems(chars, 1)]

ToLower(ch) == IF ch = "A" THEN "a" ELSE ch

\* a faulty match: the pattern compiled with re.IGNORECASE
ItemMatchesIgnoreCaseMutant(item, ch) == item.c = "." \/ ToLower(item.c) = ToLower(ch)

ItemMatches(item, ch) == item.c = "." \/ item.c = ch

\* whether prog[pi..] matches a prefix of text[ti..] (backtracking, as sre does)
RECURSIVE MatchAt(_, _, _, _)
MatchAt(prog, pi, text, ti) ==
    IF pi > Len(prog) THEN TRUE
    ELSE IF prog[pi].star
         THEN \/ MatchAt(prog, pi + 1, text, ti)
              \/ /\ ti <= Len(text)
                 /\ ItemMatches(prog[pi], text[ti])
                 /\ MatchAt(prog, pi, text, ti + 1)
         ELSE /\ ti <= Len(text)
              /\ ItemMatches(prog[pi], text[ti])
              /\ MatchAt(prog, pi + 1, text, ti + 1)

\* pattern.search(text): a match starting at any position
ReSearch(prog, text) == \E start \in 1..(Len(text) + 1) : MatchAt(prog, 1, text, start)

(***************************************************************************)
(* URLs.  urlparse(link).netloc is the authority of the URL: the host with *)
(* its port when the URL states one, never the path or the query.          *)
(***************************************************************************)
Url(host, port, path, query) == [host |-> host, port |-> port, path |-> path, query |-> query]

\* a faulty netloc: the authority cut at the first '/' only, so that a query that
\* follows the host directly stays in the key
NetlocWithQueryMutant(link) == link.host \o link.query

Netloc(link) == IF link.port = "" THEN link.host ELSE link.host \o ":" \o link.port

(***************************************************************************)
(* Markup.  A markup string is a sequence of tokens: an opening tag with   *)
(* its class and id attributes ("" when absent), a closing tag, or a run   *)
(* of text.  BeautifulSoup(markup, "lxml") builds the tree best-effort: an *)
(* unclosed element is closed at the end of input and a closing tag with   *)
(* nothing open is dropped.  The tree is the sequence of its nodes in      *)
(* document order, each with the index of its parent (0: the soup object). *)
(***************************************************************************)
Open(class, id) == [k |-> "open", class |-> class, id |-> id, s |-> <<>>]
CloseTag == [k |-> "close", class |-> "", id |-> "", s |-> <<>>]
Text(chars) == [k |-> "text", class |-> "", id |-> "", s |-> chars]

RECURSIVE ParseFrom(_, _, _, _)
ParseFrom(toks, i, stack, nodes) ==
    IF i > Len(toks) THEN nodes
    ELSE LET tok == toks[i]
             top == IF stack = <<>> THEN 0 ELSE stack[Len(stack)]
         IN  CASE tok.k = "open" ->
                    ParseFrom(toks, i + 1, Append(stack, Len(nodes) + 1),
                              Append(nodes, [k |-> "tag", class |-> tok.class, id |-> tok.id,
                                             s |-> <<>>, parent |-> top]))
               [] tok.k = "close" ->
                    ParseFrom(toks, i + 1,
                              IF stack = <<>> THEN stack ELSE SubSeq(stack, 1, Len(stack) - 1),
                              nodes)
               [] OTHER ->
                    ParseFrom(toks, i + 1, stack,
                              Append(nodes, [k |-> "text", class |-> "", id |-> "",
                                             s |-> tok.s, parent |-> top]))

\* BeautifulSoup(markup, "lxml")
BeautifulSoup(markup) == ParseFrom(markup, 1, <<>>, <<>>)

\* A search result: the soup object (0), a node of the tree (its index), or None.
SoupRoot == 0
NoNode == -1

RECURSIVE IsDescendant(_, _, _)
IsDescendant(tree, n, scope) ==
    IF scope = SoupRoot THEN TRUE
    ELSE IF tree[n].parent = SoupRoot THEN FALSE
         ELSE tree[n].parent = scope \/ IsDescendant(tree, tree[n].parent, scope)

\* the first of a set of node indexes in document order, None when the set is empty
FirstOf(hits) == IF hits = {} THEN NoNode ELSE CHOOSE n \in hits : \A m \in hits : n <= m

\* the last of a set of node indexes in document order
LastOf(hits) == IF hits = {} THEN NoNode ELSE CHOOSE n \in hits : \A m \in hits : n >= m

ClassHits(tree, scope, class) ==
    {n \in 1..Len(tree) : tree[n].k = "tag" /\ tree[n].class = class /\ IsDescendant(tree, n, scope)}

\* a faulty find: the last element of the class instead of the first
FindClassLastMutant(tree, scope, class) == LastOf(ClassHits(tree, scope, class))

\* scope.find(class_=class)
FindClass(tree, scope, class) == FirstOf(ClassHits(tree, scope, class))

\* scope.find(id=id)
FindId(tree, scope, id) ==
    FirstOf({n \in 1..Len(tree) : tree[n].k = "tag" /\ tree[n].id = id /\ IsDescendant(tree, n, scope)})

\* scope.find(text=pattern)
FindText(tree, scope, prog) ==
    FirstOf({n \in 1..Len(tree) : tree[n].k = "text" /\ IsDescendant(tree, n, scope)
                                   /\ ReSearch(prog, tree[n].s)})

(***************************************************************************)
(* Policies.  An entry of the host-to-policy mapping is a raw record of    *)
(* pages.json (a dict: has is the set of its keys) or a Domain object.     *)
(***************************************************************************)
FieldNames == {"class_", "id_", "value_"}

RawEntry(has, class, id, value) ==
    [t |-> "dict", has |-> has, class_ |-> class, id_ |-> id, value_ |-> value]

\* Domain(class_, id_, value_)
Domain(class, id, value) ==
    [t |-> "Domain", has |-> {}, class_ |-> class, id_ |-> id, value_ |-> value]

\* One pass of the loop body of extract_domains on the value val of a key: the
\* entry the mapping holds afterwards and the exception that leaves the function
\* ("" when none does).  KeyError is caught; re.error from re.compile is not, and
\* it is raised after the Domain was stored.
ConvertEntry(val) ==
    IF ~(FieldNames \subseteq val.has)
    THEN [entry |-> val, raised |-> ""]
    ELSE IF val.value_.t = "None"
         THEN [entry |-> Domain(val.class_, val.id_, NoneVal), raised |-> ""]
         ELSE LET chars == <<".", "*">> \o val.value_.s \o <<".", "*">>
                  re == ReCompile(chars)
              IN  IF re.ok
                  THEN [entry |-> Domain(val.class_, val.id_, PatternVal(chars, re.prog)),
                        raised |-> ""]
                  ELSE [entry |-> Domain(val.class_, val.id_, val.value_),
                        raised |-> "re.error"]

(***************************************************************************)
(* Scraper.check_stock after get_loaded_page has returned markup: the      *)
(* outcome of lines 68-90 as a record: raised ("" or the exception that    *)
(* leaves the method), value (the boolean returned) and searches (the      *)
(* find calls made on the soup, in order).                                 *)
(***************************************************************************)
Returned(value, searches) == [raised |-> "", value |-> value, searches |-> searches]
Raised(exc) == [raised |-> exc, value |-> FALSE, searches |-> <<>>]

\* bool(domain) at line 72: None and an empty dict are falsy
TruthyEntry(domain) == domain.t = "Domain" \/ (domain.t = "dict" /\ domain.has # {})

\* a faulty validity check: the empty policy is let through
NoFieldSetNeverMutant(domain) == FALSE

\* not (domain.class_ or domain.id_ or domain.value_), line 73
NoFieldSet(domain) ==
    ~(Truthy(domain.class_) \/ Truthy(domain.id_) \/ TruthyVal(domain.value_))

\* a faulty narrowing: the id is tried when the class finds nothing
NarrowIdFallbackMutant(tree, domain) ==
    LET byClass == IF Truthy(domain.class_)
                   THEN FindClass(tree, SoupRoot, domain.class_) ELSE NoNode
    IN  IF byClass # NoNode THEN [soup |-> byClass, searches |-> <<"class">>]
        ELSE IF Truthy(domain.id_)
             THEN [soup |-> FindId(tree, SoupRoot, domain.id_), searches |-> <<"class", "id">>]
             ELSE [soup |-> SoupRoot, searches |-> <<>>]

\* lines 78-81: narrow by class, else by id, else keep the whole soup
Narrow(tree, domain) ==
    IF Truthy(domain.class_)
    THEN [soup |-> FindClass(tree, SoupRoot, domain.class_), searches |-> <<"class">>]
    ELSE IF Truthy(domain.id_)
         THEN [soup |-> FindId(tree, SoupRoot, domain.id_), searches |-> <<"id">>]
         ELSE [soup |-> SoupRoot, searches |-> <<>>]

\* lines 84-87: the value search within the narrowed scope and the verdict
SearchValue(tree, narrowed, domain) ==
    IF narrowed.soup # NoNode /\ TruthyVal(domain.value_)
    THEN Returned(FindText(tree, narrowed.soup, domain.value_.prog) # NoNode,
                  Append(narrowed.searches, "text"))
    ELSE Returned(narrowed.soup # NoNode, narrowed.searches)

CheckStock(domains, link, markup) ==
    LET tree == BeautifulSoup(markup)
        domain_name == Netloc(link)
    IN  IF domain_name \notin DOMAIN domains THEN Returned(FALSE, <<>>)
        ELSE LET domain == domains[domain_name]
             IN  IF ~TruthyEntry(domain) THEN Returned(FALSE, <<>>)
                 ELSE IF domain.t = "dict" THEN Raised("AttributeError")
                 ELSE IF NoFieldSet(domain) THEN Returned(FALSE, <<>>)
                 ELSE SearchValue(tree, Narrow(tree, domain), domain)

(***************************************************************************)
(* The render session.  The DOM of the loaded page is a markup; innerHTML  *)
(* of the root element is its serialization and page_source wraps it in    *)
(* the root element.  get_page_hash is hash(dom.encode("utf-8")): the      *)
(* bytes of the markup folded to a fixed-width integer (the width is       *)
(* reduced from 64 bits; DomsDistinct states that no two modelled pages    *)
(* collide).                                                               *)
(***************************************************************************)
NameCode(name) ==
    CASE name = "" -> 0
      [] name = "stock" -> 1
      [] name = "price" -> 2
      [] name = "buy" -> 3
      [] name = "oos" -> 4
      [] name = "a" -> 97
      [] name = "b" -> 98
      [] OTHER -> 63

RECURSIVE EncodeChars(_)
EncodeChars(chars) ==
    IF chars = <<>> THEN <<>> ELSE <<NameCode(Head(chars))>> \o EncodeChars(Tail(chars))

\* dom.encode("utf-8")
RECURSIVE Encode(_)
Encode(markup) ==
    IF markup = <<>> THEN <<>>
    ELSE LET tok == Head(markup)
             bytes == CASE tok.k = "open" -> <<60, NameCode(tok.class), 32, NameCode(tok.id), 62>>
                        [] tok.k = "close" -> <<60, 47, 62>>
                        [] OTHER -> EncodeChars(tok.s)
         IN  bytes \o Encode(Tail(markup))

HashModulus == 2^16

RECURSIVE HashFrom(_, _)
HashFrom(h, bytes) ==
    IF bytes = <<>> THEN h ELSE HashFrom((h * 31 + Head(bytes)) % HashModulus, Tail(bytes))

\* hash(bytes)
PyHash(bytes) == HashFrom(7, bytes)

PyStr(str) == [t |-> "str", str |-> str, int |-> 0]
PyInt(int) == [t |-> "int", str |-> "", int |-> int]

\* find_element_by_tag_name("html").get_attribute("innerHTML")
InnerHTML(dom) == dom

\* driver.page_source
PageSource(dom) == <<Open("", "")>> \o dom \o <<CloseTag>>

\* get_page_hash() on the current DOM
GetPageHash(dom) == PyInt(PyHash(Encode(InnerHTML(dom))))

(***************************************************************************)
(* Bounds and the inputs of the run.                                       *)
(***************************************************************************)
\* iterations of the stabilization loop modelled per call (the code has no bound)
MaxIter == 3
\* sweeps of main's `while True` modelled
MaxSweeps == 2

InStock == <<Open("stock", ""), Text(<<"a">>), CloseTag>>
OutOfStock == <<Open("oos", "buy"), Text(<<"b">>), CloseTag>>
Loading == <<>>

\* the pages a site serves and mutates between
Doms == {InStock, OutOfStock, Loading}

DomsDistinct == \A d, e \in Doms : GetPageHash(d) = GetPageHash(e) => d = e

LinkX == Url("a.com", "", "/x", "?y=1")
LinkZ == Url("a.com", "", "/z", "")
LinkPort == Url("a.com", "443", "/x", "")
LinkB == Url("b.com", "", "/x", "")

\* pages.json as json.load returns it: "domains" and "links"
PagesJson(domains, lnks) == [domains |-> domains, links |-> lnks]

StockPolicy == RawEntry(FieldNames, "stock", PyNone, NoneVal)
EmptyPolicy == RawEntry(FieldNames, PyNone, PyNone, NoneVal)
MissingIdPolicy == RawEntry({"class_", "value_"}, "stock", PyNone, NoneVal)
BadPatternPolicy == RawEntry(FieldNames, PyNone, PyNone, StrVal(<<"(">>))
TextPolicy == RawEntry(FieldNames, PyNone, "buy", StrVal(<<"b">>))

Configs ==
    { PagesJson([h \in {"a.com"} |-> StockPolicy], <<LinkX, LinkZ>>),
      PagesJson([h \in {"a.com", "b.com"} |-> IF h = "a.com" THEN TextPolicy ELSE MissingIdPolicy],
                <<LinkX, LinkB>>),
      PagesJson([h \in {"a.com", "b.com"} |-> IF h = "a.com" THEN StockPolicy ELSE EmptyPolicy],
                <<LinkB, LinkPort>>),
      PagesJson([h \in {"a.com", "b.com"} |-> IF h = "a.com" THEN StockPolicy ELSE BadPatternPolicy],
                <<LinkX>>) }

(***************************************************************************)
(* State.                                                                  *)
(***************************************************************************)
VARIABLES
    pages_json,     \* pages.json as loaded (never written: the input of the run)
    domain_dict,    \* pages["domains"], converted in place, then Scraper.domains
    todo,           \* keys extract_domains has still to visit
    pc,             \* the statement the (single) thread is at
    exc,            \* the exception that ended the run ("" while it runs)
    li,             \* index in links of the link of the for loop
    sweep,          \* number of the pass of `while True`
    driver,         \* the render session: url, dom, cookies
    page_hash,      \* get_loaded_page's local
    page_hash_new,  \* get_loaded_page's local
    reads,          \* the DOMs get_page_hash has read in this call, in order
    iters,          \* completed iterations of the loop in this call
    page,           \* what get_loaded_page returned
    verdict,        \* what check_stock returned
    sent,           \* the notifications sent, in order
    ev_out,         \* results of check_stock applied to inputs drawn by InitEval
    ops,            \* the session operations and sleeps of this check_stock call, counted
    settled         \* the environment has promised: the page no longer changes or fails

vars == <<pages_json, domain_dict, todo, pc, exc, li, sweep, driver, page_hash,
          page_hash_new, reads, iters, page, verdict, sent, ev_out, ops, settled>>

links == pages_json.links

BlankUrl == Url("", "", "", "")
NoValue == "<unset>"

\* no session operation yet: driver.get calls, innerHTML reads, sleeps, page_source reads
NoOps == [get |-> 0, hash |-> 0, sleep |-> 0, source |-> 0]

\* the locals of a check_stock call before it has run
NoCall ==
    /\ page_hash = PyStr("empty")
    /\ page_hash_new = PyStr("")
    /\ reads = <<>>
    /\ iters = 0
    /\ page = <<>>
    /\ verdict = NoValue
    /\ ops = NoOps

\* main up to the call of extract_domains (lines 160-170)
Init ==
    /\ pages_json \in Configs
    /\ domain_dict = pages_json.domains
    /\ todo = DOMAIN pages_json.domains
    /\ pc = "extract"
    /\ exc = ""
    /\ li = 0
    /\ sweep = 1
    /\ driver = [url |-> BlankUrl, dom |-> Loading, cookies |-> {}]
    /\ NoCall
    /\ sent = <<>>
    /\ ev_out = <<>>
    /\ settled = FALSE

(***************************************************************************)
(* extract_domains (lines 142-156), one loop pass per step, the keys in    *)
(* any order.                                                              *)
(***************************************************************************)
ExtractDomainsStep ==
    /\ pc = "extract"
    /\ \E key \in todo :
          LET r == ConvertEntry(domain_dict[key])
          IN  /\ domain_dict' = [domain_dict EXCEPT ![key] = r.entry]
              /\ todo' = todo \ {key}
              /\ exc' = r.raised
              /\ pc' = IF r.raised = "" THEN "extract" ELSE "crashed"
    /\ UNCHANGED <<pages_json, li, sweep, driver, page_hash, page_hash_new, reads, iters,
                   page, verdict, sent, ev_out, ops, settled>>

\* return domain_dict; main builds the Notifier and the Scraper (lines 156, 185-186)
ExtractDomainsReturn ==
    /\ pc = "extract"
    /\ todo = {}
    /\ pc' = "for"
    /\ UNCHANGED <<pages_json, domain_dict, todo, exc, li, sweep, driver, page_hash,
                   page_hash_new, reads, iters, page, verdict, sent, ev_out, ops, settled>>

(***************************************************************************)
(* main's loop (lines 190-197).                                            *)
(***************************************************************************)
\* a faulty start of get_loaded_page: both hash variables start as ""
ForNextEqualInitMutant ==
    /\ pc = "for"
    /\ IF li < Len(links)
       THEN /\ li' = li + 1
            /\ pc' = "get"
       ELSE /\ li' = li
            /\ pc' = "cookies"
    /\ page_hash' = PyStr("")
    /\ page_hash_new' = PyStr("")
    /\ reads' = <<>>
    /\ iters' = 0
    /\ page' = <<>>
    /\ verdict' = NoValue
    /\ ops' = NoOps
    /\ UNCHANGED <<pages_json, domain_dict, todo, exc, sweep, driver, sent, ev_out,
                   settled>>

\* a faulty check: after the first link of a sweep the markup of the previous
\* check is matched again in place of a call of get_loaded_page
ForNextCachedMutant ==
    /\ pc = "for"
    /\ IF li < Len(links)
       THEN /\ li' = li + 1
            /\ pc' = IF li = 0 THEN "get" ELSE "evaluate"
       ELSE /\ li' = li
            /\ pc' = "cookies"
    /\ page_hash' = PyStr("empty")
    /\ page_hash_new' = PyStr("")
    /\ reads' = <<>>
    /\ iters' = 0
    /\ page' = IF li = 0 \/ li >= Len(links) THEN <<>> ELSE page
    /\ verdict' = NoValue
    /\ ops' = NoOps
    /\ UNCHANGED <<pages_json, domain_dict, todo, exc, sweep, driver, sent, ev_out,
                   settled>>

\* `for link in links`: the next link and the call of check_stock, which calls
\* get_loaded_page (lines 124-125), or the end of the sweep
ForNext ==
    /\ pc = "for"
    /\ IF li < Len(links)
       THEN /\ li' = li + 1
            /\ pc' = "get"
       ELSE /\ li' = li
            /\ pc' = "cookies"
    /\ page_hash' = PyStr("empty")
    /\ page_hash_new' = PyStr("")
    /\ reads' = <<>>
    /\ iters' = 0
    /\ page' = <<>>
    /\ verdict' = NoValue
    /\ ops' = NoOps
    /\ UNCHANGED <<pages_json, domain_dict, todo, exc, sweep, driver, sent, ev_out,
                   settled>>

\* scraper.delete_cookies() after the for loop, then the next pass of `while True`
DeleteCookies ==
    /\ pc = "cookies"
    /\ sweep < MaxSweeps
    /\ driver' = [driver EXCEPT !.cookies = {}]
    /\ sweep' = sweep + 1
    /\ li' = 0
    /\ pc' = "for"
    /\ UNCHANGED <<pages_json, domain_dict, todo, exc, page_hash, page_hash_new, reads,
                   iters, page, verdict, sent, ev_out, ops, settled>>

\* a faulty loop body: delete_cookies indented into the for loop
MainBranchDeletingCookiesMutant ==
    /\ pc = "branch"
    /\ sent' = IF verdict = "True" THEN Append(sent, [sweep |-> sweep, li |-> li]) ELSE sent
    /\ driver' = [driver EXCEPT !.cookies = {}]
    /\ pc' = "for"
    /\ UNCHANGED <<pages_json, domain_dict, todo, exc, li, sweep, page_hash,
                   page_hash_new, reads, iters, page, verdict, ev_out, ops, settled>>

\* a faulty loop body: a link already notified in the run is not notified again
MainBranchNotifyOnceMutant ==
    /\ pc = "branch"
    /\ sent' = IF verdict = "True" /\ \A k \in 1..Len(sent) : sent[k].li # li
               THEN Append(sent, [sweep |-> sweep, li |-> li])
               ELSE sent
    /\ pc' = "for"
    /\ UNCHANGED <<pages_json, domain_dict, todo, exc, li, sweep, driver, page_hash,
                   page_hash_new, reads, iters, page, verdict, ev_out, ops, settled>>

\* the if of line 192 on check_stock's result: send_notification or not
MainBranch ==
    /\ pc = "branch"
    /\ sent' = IF verdict = "True" THEN Append(sent, [sweep |-> sweep, li |-> li]) ELSE sent
    /\ pc' = "for"
    /\ UNCHANGED <<pages_json, domain_dict, todo, exc, li, sweep, driver, page_hash,
                   page_hash_new, reads, iters, page, verdict, ev_out, ops, settled>>

(***************************************************************************)
(* Scraper.get_loaded_page (lines 113-134), one statement per step.        *)
(***************************************************************************)
\* self.driver.get(link): the site serves some page and sets a cookie (named here
\* after the sweep and the link that set it)
DriverGet ==
    /\ pc = "get"
    /\ \E dom \in Doms :
          driver' = [url |-> links[li], dom |-> dom,
                     cookies |-> driver.cookies \cup {[sweep |-> sweep, li |-> li]}]
    /\ pc' = "while"
    /\ ops' = [ops EXCEPT !.get = @ + 1]
    /\ UNCHANGED <<pages_json, domain_dict, todo, exc, li, sweep, page_hash, page_hash_new,
                   reads, iters, page, verdict, sent, ev_out, settled>>

\* a faulty loop test: the loop is given up after one iteration
WhileTestOncePerCallMutant ==
    /\ pc = "while"
    /\ pc' = IF iters = 0 THEN "hash1" ELSE "source"
    /\ UNCHANGED <<pages_json, domain_dict, todo, exc, li, sweep, driver, page_hash,
                   page_hash_new, reads, iters, page, verdict, sent, ev_out, ops, settled>>

\* a faulty loop test: `is not` in place of `!=`, true of any two hash objects
WhileTestIdentityMutant ==
    /\ pc = "while"
    /\ iters < MaxIter
    /\ pc' = "hash1"
    /\ UNCHANGED <<pages_json, domain_dict, todo, exc, li, sweep, driver, page_hash,
                   page_hash_new, reads, iters, page, verdict, sent, ev_out, ops, settled>>

\* while page_hash != page_hash_new (line 129)
WhileTest ==
    /\ pc = "while"
    /\ IF page_hash # page_hash_new
       THEN iters < MaxIter /\ pc' = "hash1"
       ELSE pc' = "source"
    /\ UNCHANGED <<pages_json, domain_dict, todo, exc, li, sweep, driver, page_hash,
                   page_hash_new, reads, iters, page, verdict, sent, ev_out, ops, settled>>

\* a faulty loop body: from the second iteration on the first reading is the
\* previous iteration's second one, not a new read
HashRead1SlidingMutant ==
    /\ pc = "hash1"
    /\ IF iters = 0
       THEN /\ page_hash' = GetPageHash(driver.dom)
            /\ reads' = Append(reads, driver.dom)
            /\ ops' = [ops EXCEPT !.hash = @ + 1]
       ELSE /\ page_hash' = page_hash_new
            /\ reads' = Append(reads, reads[Len(reads)])
            /\ ops' = ops
    /\ pc' = "sleep"
    /\ UNCHANGED <<pages_json, domain_dict, todo, exc, li, sweep, driver, page_hash_new,
                   iters, page, verdict, sent, ev_out, settled>>

\* page_hash = get_page_hash() (line 130)
HashRead1 ==
    /\ pc = "hash1"
    /\ page_hash' = GetPageHash(driver.dom)
    /\ reads' = Append(reads, driver.dom)
    /\ pc' = "sleep"
    /\ ops' = [ops EXCEPT !.hash = @ + 1]
    /\ UNCHANGED <<pages_json, domain_dict, todo, exc, li, sweep, driver, page_hash_new,
                   iters, page, verdict, sent, ev_out, settled>>

\* time.sleep(sleep_time) (line 131)
Sleep ==
    /\ pc = "sleep"
    /\ pc' = "hash2"
    /\ ops' = [ops EXCEPT !.sleep = @ + 1]
    /\ UNCHANGED <<pages_json, domain_dict, todo, exc, li, sweep, driver, page_hash,
                   page_hash_new, reads, iters, page, verdict, sent, ev_out, settled>>

\* page_hash_new = get_page_hash() (line 132)
HashRead2 ==
    /\ pc = "hash2"
    /\ page_hash_new' = GetPageHash(driver.dom)
    /\ reads' = Append(reads, driver.dom)
    /\ iters' = iters + 1
    /\ pc' = "while"
    /\ ops' = [ops EXCEPT !.hash = @ + 1]
    /\ UNCHANGED <<pages_json, domain_dict, todo, exc, li, sweep, driver, page_hash,
                   page, verdict, sent, ev_out, settled>>

\* return self.driver.page_source (line 134)
ReturnPageSource ==
    /\ pc = "source"
    /\ page' = PageSource(driver.dom)
    /\ pc' = "evaluate"
    /\ ops' = [ops EXCEPT !.source = @ + 1]
    /\ UNCHANGED <<pages_json, domain_dict, todo, exc, li, sweep, driver, page_hash,
                   page_hash_new, reads, iters, verdict, sent, ev_out, settled>>

(***************************************************************************)
(* Scraper.check_stock after get_loaded_page (lines 68-90).                *)
(***************************************************************************)
\* a faulty check_stock: a host without a policy is given an empty one
CheckStockEvaluateSetDefaultMutant ==
    /\ pc = "evaluate"
    /\ LET out == CheckStock(domain_dict, links[li], page)
       IN  IF out.raised = ""
           THEN /\ verdict' = IF out.value THEN "True" ELSE "False"
                /\ pc' = "branch"
                /\ exc' = exc
           ELSE /\ verdict' = verdict
                /\ pc' = "crashed"
                /\ exc' = out.raised
    /\ domain_dict' = [h \in DOMAIN domain_dict \cup {Netloc(links[li])} |->
                          IF h \in DOMAIN domain_dict THEN domain_dict[h]
                          ELSE Domain(PyNone, PyNone, NoneVal)]
    /\ UNCHANGED <<pages_json, todo, li, sweep, driver, page_hash,
                   page_hash_new, reads, iters, page, sent, ev_out, ops, settled>>

\* a faulty check_stock: the soup is made from a new read of driver.page_source
CheckStockEvaluateLiveMutant ==
    /\ pc = "evaluate"
    /\ page' = PageSource(driver.dom)
    /\ ops' = [ops EXCEPT !.source = @ + 1]
    /\ LET out == CheckStock(domain_dict, links[li], page')
       IN  IF out.raised = ""
           THEN /\ verdict' = IF out.value THEN "True" ELSE "False"
                /\ pc' = "branch"
                /\ exc' = exc
           ELSE /\ verdict' = verdict
                /\ pc' = "crashed"
                /\ exc' = out.raised
    /\ UNCHANGED <<pages_json, domain_dict, todo, li, sweep, driver, page_hash,
                   page_hash_new, reads, iters, sent, ev_out, settled>>

CheckStockEvaluate ==
    /\ pc = "evaluate"
    /\ LET out == CheckStock(domain_dict, links[li], page)
       IN  IF out.raised = ""
           THEN /\ verdict' = IF out.value THEN "True" ELSE "False"
                /\ pc' = "branch"
                /\ exc' = exc
           ELSE /\ verdict' = verdict
                /\ pc' = "crashed"
                /\ exc' = out.raised
    /\ UNCHANGED <<pages_json, domain_dict, todo, li, sweep, driver, page_hash,
                   page_hash_new, reads, iters, page, sent, ev_out, ops, settled>>

(***************************************************************************)
(* The environment: the loaded page rewrites its DOM at any moment of the  *)
(* stabilization, and a session operation may fail.                        *)
(***************************************************************************)
InGetLoadedPage == pc \in {"while", "hash1", "sleep", "hash2", "source"}

PageMutate ==
    /\ InGetLoadedPage
    /\ ~settled
    /\ \E dom \in Doms \ {driver.dom} : driver' = [driver EXCEPT !.dom = dom]
    /\ UNCHANGED <<pages_json, domain_dict, todo, pc, exc, li, sweep, page_hash,
                   page_hash_new, reads, iters, page, verdict, sent, ev_out, ops, settled>>

\* a faulty get_loaded_page: the failure is caught and the navigation done again
SessionFailRetryMutant ==
    /\ pc \in {"get", "hash1", "hash2", "source"}
    /\ ~settled
    /\ pc' = "get"
    /\ exc' = "WebDriverException"
    /\ UNCHANGED <<pages_json, domain_dict, todo, li, sweep, driver, page_hash,
                   page_hash_new, reads, iters, page, verdict, sent, ev_out, ops, settled>>

\* driver.get, find_element_by_tag_name or page_source raises: nothing catches it
SessionFail ==
    /\ pc \in {"get", "hash1", "hash2", "source"}
    /\ ~settled
    /\ pc' = "crashed"
    /\ exc' = "WebDriverException"
    /\ UNCHANGED <<pages_json, domain_dict, todo, li, sweep, driver, page_hash,
                   page_hash_new, reads, iters, page, verdict, sent, ev_out, ops, settled>>

\* from this moment on the page keeps its content and the session does not fail
Settle ==
    /\ ~settled
    /\ settled' = TRUE
    /\ UNCHANGED <<pages_json, domain_dict, todo, pc, exc, li, sweep, driver, page_hash,
                   page_hash_new, reads, iters, page, verdict, sent, ev_out, ops>>

Next ==
    \/ ExtractDomainsStep
    \/ ExtractDomainsReturn
    \/ ForNext
    \/ DriverGet
    \/ WhileTest
    \/ HashRead1
    \/ Sleep
    \/ HashRead2
    \/ ReturnPageSource
    \/ CheckStockEvaluate
    \/ MainBranch
    \/ DeleteCookies
    \/ PageMutate
    \/ SessionFail

Spec == Init /\ [][Next]_vars

\* the run with a page that settles, the statements of get_loaded_page's loop
\* taken as long as they can be
GetLoadedPageStep == WhileTest \/ HashRead1 \/ Sleep \/ HashRead2 \/ ReturnPageSource

\* the run on a configuration of one link
InitLive ==
    /\ pages_json = PagesJson([h \in {"a.com"} |-> StockPolicy], <<LinkX>>)
    /\ domain_dict = pages_json.domains
    /\ todo = DOMAIN pages_json.domains
    /\ pc = "extract"
    /\ exc = ""
    /\ li = 0
    /\ sweep = 1
    /\ driver = [url |-> BlankUrl, dom |-> Loading, cookies |-> {}]
    /\ NoCall
    /\ sent = <<>>
    /\ ev_out = <<>>
    /\ settled = FALSE

NextLive == Next \/ Settle

SpecLive == InitLive /\ [][NextLive]_vars /\ WF_vars(GetLoadedPageStep)

(***************************************************************************)
(* check_stock on drawn inputs: every policy extract_domains can build     *)
(* from a small alphabet, against every markup of up to MaxTokens tokens,  *)
(* and pairs of links against the pages of Doms.                           *)
(***************************************************************************)
\* characters of a raw value_ string
MaxRawLen == 2

RawChars == {"a", ".", "("}

RawValues == {NoneVal} \cup {StrVal(str) : str \in UNION {[1..n -> RawChars] : n \in 0..MaxRawLen}}

\* tokens of a markup drawn for check_stock
MaxTokens == 4

EvalTokens ==
    {Open("price", ""), Open("", "buy"), CloseTag, Text(<<"a">>), Text(<<"b">>)}

EvalMarkups == UNION {[1..n -> EvalTokens] : n \in 0..MaxTokens}

EvalRawValues == {NoneVal, StrVal(<<>>), StrVal(<<"a">>), StrVal(<<".">>)}

\* the entries extract_domains leaves in the mapping: Domain objects and raw dicts
EvalEntries ==
    {ConvertEntry(RawEntry(FieldNames, class, id, value)).entry :
        class \in {PyNone, "", "price"}, id \in {PyNone, "buy"}, value \in EvalRawValues}
    \cup {MissingIdPolicy, RawEntry({}, PyNone, PyNone, NoneVal)}

EvalLinks == {LinkX, LinkZ, LinkPort, LinkB}

Pending == [raised |-> "pending", value |-> FALSE, searches |-> <<>>]

Parked(domains, lnks, markup) ==
    /\ pages_json = PagesJson(domains, lnks)
    /\ domain_dict = domains
    /\ todo = {}
    /\ pc = "harness"
    /\ exc = ""
    /\ li = 0
    /\ sweep = 1
    /\ driver = [url |-> BlankUrl, dom |-> Loading, cookies |-> {}]
    /\ page_hash = PyStr("empty")
    /\ page_hash_new = PyStr("")
    /\ reads = <<>>
    /\ iters = 0
    /\ page = markup
    /\ verdict = NoValue
    /\ sent = <<>>
    /\ ev_out = [i \in 1..Len(lnks) |-> Pending]
    /\ ops = NoOps
    /\ settled = FALSE

\* one link of a.com, every entry for a.com (or none), every markup
InitEvalMarkup ==
    \E markup \in EvalMarkups :
       \/ \E entry \in EvalEntries :
             Parked([h \in {"a.com"} |-> entry], <<LinkX>>, PageSource(markup))
       \/ Parked([h \in {"b.com"} |-> Domain("price", PyNone, NoneVal)], <<LinkX>>,
                 PageSource(markup))

\* two links, a policy for a.com and b.com, the pages of Doms
InitEvalLinks ==
    \E l1 \in EvalLinks, l2 \in EvalLinks, dom \in Doms, ea \in EvalEntries :
       Parked([h \in {"a.com", "b.com"} |->
                  IF h = "a.com" THEN ea ELSE Domain(PyNone, "buy", NoneVal)],
              <<l1, l2>>, PageSource(dom))

\* characters of a text node drawn for the value search
MaxTextLen == 2

TextChars == {"a", "A", "."}

EvalTexts == UNION {[1..n -> TextChars] : n \in 1..MaxTextLen}

\* the policies with only value_ set that extract_domains builds from RawValues
ValueOnlyEntries ==
    {ConvertEntry(RawEntry(FieldNames, PyNone, PyNone, value)).entry :
        value \in {v \in RawValues :
                      ConvertEntry(RawEntry(FieldNames, PyNone, PyNone, v)).raised = ""}}

\* one link of a.com, a policy with only value_ set, one or two text nodes
InitEvalText ==
    \E entry \in ValueOnlyEntries, t \in EvalTexts :
       \/ Parked([h \in {"a.com"} |-> entry], <<LinkX>>, PageSource(<<Text(t)>>))
       \/ \E u \in EvalTexts :
             Parked([h \in {"a.com"} |-> entry], <<LinkX>>,
                    PageSource(<<Open("", "buy"), Text(t), CloseTag, Text(u)>>))

InitEval == InitEvalMarkup \/ InitEvalLinks \/ InitEvalText

\* scraper.check_stock(links[i]) once get_loaded_page has returned page
EvalCall(i) ==
    /\ pc = "harness"
    /\ ev_out[i] = Pending
    /\ ev_out' = [ev_out EXCEPT ![i] = CheckStock(domain_dict, links[i], page)]
    /\ UNCHANGED <<pages_json, domain_dict, todo, pc, exc, li, sweep, driver, page_hash,
                   page_hash_new, reads, iters, page, verdict, sent, ops,
                   settled>>

NextEval == \E i \in 1..Len(links) : EvalCall(i)

SpecEval == InitEval /\ [][NextEval]_vars

(***************************************************************************)
(* extract_domains on drawn inputs: every mapping of up to two hosts to    *)
(* raw records with any subset of the field names and any value_ of up to  *)
(* MaxRawLen characters.                                                   *)
(***************************************************************************)
RawEntries ==
    {RawEntry(FieldNames, class, id, value) :
        class \in {PyNone, "price"}, id \in {PyNone, "buy"}, value \in RawValues}
    \cup {RawEntry(has, IF "class_" \in has THEN "price" ELSE PyNone,
                   IF "id_" \in has THEN "buy" ELSE PyNone,
                   IF "value_" \in has THEN StrVal(<<"a">>) ELSE NoneVal) :
             has \in (SUBSET FieldNames) \ {FieldNames}}

InitExtract ==
    /\ \E hosts \in (SUBSET {"a.com", "b.com"}) \ {{}} :
          \E domains \in [hosts -> RawEntries] :
             pages_json = PagesJson(domains, <<LinkX>>)
    /\ domain_dict = pages_json.domains
    /\ todo = DOMAIN pages_json.domains
    /\ pc = "extract"
    /\ exc = ""
    /\ li = 0
    /\ sweep = 1
    /\ driver = [url |-> BlankUrl, dom |-> Loading, cookies |-> {}]
    /\ NoCall
    /\ sent = <<>>
    /\ ev_out = <<>>
    /\ settled = FALSE

NextExtract == ExtractDomainsStep \/ ExtractDomainsReturn

SpecExtract == InitExtract /\ [][NextExtract]_vars

(***************************************************************************)
(* Properties of get_loaded_page, checked under Spec.                      *)
(***************************************************************************)
\* get_loaded_page has returned in the current check_stock call
GlpReturned == pc \in {"evaluate", "branch"}

\* the two reads of the k-th iteration of the loop
PairEqual(k) == reads[2 * k - 1] = reads[2 * k]

\* C1: get_loaded_page stops at the first two consecutive reads of the root markup
\* that are identical: when the first two reads are A, A it has returned after one
\* iteration, and when the first three reads are A, B, B (A # B) after two.
C1_ReturnsAtFirstEqualReads ==
    GlpReturned =>
        /\ (reads[1] = reads[2] => iters = 1)
        /\ (reads[1] # reads[2] /\ reads[2] = reads[3] => iters = 2)

\* C2: the markup get_loaded_page returns is the markup of the two equal reads
\* that ended the loop, also when the page mutates between session reads.
C2_ReturnsTheStableSnapshot ==
    GlpReturned => page = PageSource(reads[Len(reads)])

\* C3: get_loaded_page has no timeout outcome.  It has left the loop only when the
\* two reads of its last iteration were equal and those of every earlier iteration
\* differed; after any number of iterations whose reads differ it is still in the
\* loop.
C3_LeavesLoopOnlyOnEqualPair ==
    /\ pc \in {"source", "evaluate", "branch"} =>
          /\ iters >= 1
          /\ PairEqual(iters)
          /\ \A k \in 1..(iters - 1) : ~PairEqual(k)
    /\ (pc = "while" /\ iters >= 1 /\ ~PairEqual(iters)) => page_hash # page_hash_new

\* MaxIter iterations done, every pair of reads different, and no return
C3_Witness ==
    /\ pc = "while"
    /\ iters = MaxIter
    /\ \A k \in 1..iters : ~PairEqual(k)
    /\ page = <<>>

(***************************************************************************)
(* Properties of the sweep, checked under Spec.                            *)
(***************************************************************************)
\* the policy lookup of the link being checked meets a configuration defect: no
\* entry for its host, an entry left unconverted by extract_domains, or a policy
\* with no field set
ConfigDefect(link) ==
    \/ link.host \notin DOMAIN domain_dict
    \/ domain_dict[link.host].t = "dict"
    \/ /\ domain_dict[link.host].class_ \in {PyNone, ""}
       /\ domain_dict[link.host].id_ \in {PyNone, ""}
       /\ domain_dict[link.host].value_.t = "None"

\* C4: a configuration defect is not fatal to the sweep: for a link whose host has
\* no entry, whose policy has no field set or whose raw record was left unconverted,
\* check_stock returns False without raising and main goes on to the next link.
C4_ConfigDefectNeverRaises ==
    [][(pc = "evaluate" /\ links[li].port = "" /\ ConfigDefect(links[li]))
          => (pc' # "crashed" /\ (pc' = "branch" => verdict' = "False"))]_vars

\* the cookies the sites have set in this sweep up to the link being checked
CookiesOfSweep ==
    LET visited == IF pc = "get" THEN li - 1 ELSE li
    IN  {[sweep |-> sweep, li |-> j] : j \in 1..visited}

\* C8: the cookies are cleared once per sweep, at the sweep boundary.  At every
\* point of a run the session holds exactly the cookies set by the links of the
\* current sweep checked so far: none of an earlier sweep (delete_cookies ran
\* before the first check of this one) and all of this sweep (it never runs
\* between two checks of a sweep).
C8_CookiesClearedAtSweepBoundary ==
    /\ pc # "crashed" => driver.cookies = CookiesOfSweep
    /\ pc = "crashed" => driver.cookies \subseteq {[sweep |-> sweep, li |-> j] : j \in 1..li}

\* the second link of the second sweep is checked with the cookie of the first link
\* of that sweep present and the cookies of the first sweep gone
C8_Witness ==
    /\ pc = "evaluate"
    /\ sweep = 2
    /\ li = 2
    /\ driver.cookies = {[sweep |-> 2, li |-> 1], [sweep |-> 2, li |-> 2]}

(***************************************************************************)
(* Properties of check_stock's evaluation, checked under SpecEval.  They   *)
(* describe the markup by its tree and never by the searches of the code.  *)
(***************************************************************************)
\* the call on link i has been made and returned a boolean
EvalReturned(i) == i \in DOMAIN ev_out /\ ev_out[i].raised = ""

\* the policy for the host of the (port-less) link i, when it is a Domain object
HasDomain(i) ==
    /\ links[i].port = ""
    /\ links[i].host \in DOMAIN domain_dict
    /\ domain_dict[links[i].host].t = "Domain"

PolicyOf(i) == domain_dict[links[i].host]

Tree == BeautifulSoup(page)

ElementsOfClass(class) == {n \in 1..Len(Tree) : Tree[n].k = "tag" /\ Tree[n].class = class}
ElementsOfId(id) == {n \in 1..Len(Tree) : Tree[n].k = "tag" /\ Tree[n].id = id}

\* node m lies within element n: n is its parent, or the parent of its parent, ...
RECURSIVE Within(_, _)
Within(m, n) ==
    Tree[m].parent # 0 /\ (Tree[m].parent = n \/ Within(Tree[m].parent, n))

\* element n contains a text node that the pattern matches
ContainsMatch(n, prog) ==
    \E m \in 1..Len(Tree) : Tree[m].k = "text" /\ Within(m, n) /\ ReSearch(prog, Tree[m].s)

ClassAndValuePolicy(i) ==
    /\ HasDomain(i)
    /\ Truthy(PolicyOf(i).class_)
    /\ PolicyOf(i).value_.t = "Pattern"

\* C5 as claimed: with classSelector c and valuePattern v, check_stock returns True
\* iff some element of class c contains a text node matching v.
C5_TrueIffSomeClassElementMatches ==
    \A i \in DOMAIN ev_out :
       (EvalReturned(i) /\ ClassAndValuePolicy(i)) =>
          (ev_out[i].value <=>
              \E n \in ElementsOfClass(PolicyOf(i).class_) :
                 ContainsMatch(n, PolicyOf(i).value_.prog))

\* C5 as amended: with classSelector c and valuePattern v, check_stock raises
\* nothing and returns True iff the first element of class c in document order
\* contains a text node matching v; False when there is no element of class c.
C5_TrueIffFirstClassElementMatches ==
    \A i \in DOMAIN ev_out :
       (ev_out[i] # Pending /\ ClassAndValuePolicy(i)) =>
          /\ ev_out[i].raised = ""
          /\ ev_out[i].value <=>
                \E n \in ElementsOfClass(PolicyOf(i).class_) :
                   /\ \A m \in ElementsOfClass(PolicyOf(i).class_) : n <= m
                   /\ ContainsMatch(n, PolicyOf(i).value_.prog)

\* two elements of the class, the text matching the pattern only in the second:
\* check_stock has returned False
C5_Witness ==
    /\ EvalReturned(1)
    /\ ClassAndValuePolicy(1)
    /\ ~ev_out[1].value
    /\ Cardinality(ElementsOfClass(PolicyOf(1).class_)) = 2
    /\ \E n \in ElementsOfClass(PolicyOf(1).class_) : ContainsMatch(n, PolicyOf(1).value_.prog)

\* C6: class takes priority over id.  With classSelector and idSelector both set
\* and a markup with no element of the class and an element of the id, check_stock
\* returns False and makes no search by id.
C6_ClassOverId ==
    \A i \in DOMAIN ev_out :
       (/\ ev_out[i] # Pending
        /\ HasDomain(i)
        /\ Truthy(PolicyOf(i).class_)
        /\ Truthy(PolicyOf(i).id_)
        /\ ElementsOfClass(PolicyOf(i).class_) = {}
        /\ ElementsOfId(PolicyOf(i).id_) # {}) =>
          /\ ev_out[i].raised = ""
          /\ ~ev_out[i].value
          /\ \A k \in DOMAIN ev_out[i].searches : ev_out[i].searches[k] # "id"

\* such a call has been made, with a value pattern that the text of the element of
\* the id matches
C6_Witness ==
    /\ EvalReturned(1)
    /\ HasDomain(1)
    /\ Truthy(PolicyOf(1).class_)
    /\ Truthy(PolicyOf(1).id_)
    /\ PolicyOf(1).value_.t = "Pattern"
    /\ ElementsOfClass(PolicyOf(1).class_) = {}
    /\ \E n \in ElementsOfId(PolicyOf(1).id_) : ContainsMatch(n, PolicyOf(1).value_.prog)

\* none of class_, id_ and value_ is set (None, or for a selector the empty string)
NothingSet(domain) ==
    /\ domain.class_ \in {PyNone, ""}
    /\ domain.id_ \in {PyNone, ""}
    /\ domain.value_.t = "None"

\* C7: for a policy with none of class, id and value set, check_stock returns False
\* for every markup and makes no class, id or text search.
C7_EmptyPolicyIsFalse ==
    \A i \in DOMAIN ev_out :
       (ev_out[i] # Pending /\ HasDomain(i) /\ NothingSet(PolicyOf(i))) =>
          ev_out[i] = Returned(FALSE, <<>>)

\* such a call has been made on a markup that holds elements and text
C7_Witness ==
    /\ EvalReturned(1)
    /\ HasDomain(1)
    /\ NothingSet(PolicyOf(1))
    /\ \E n \in 1..Len(Tree) : Tree[n].k = "tag"
    /\ \E n \in 1..Len(Tree) : Tree[n].k = "text"

\* both calls have been made on links that differ in path or query
BothCalled ==
    /\ DOMAIN ev_out = {1, 2}
    /\ ev_out[1] # Pending
    /\ ev_out[2] # Pending
    /\ (links[1].path # links[2].path \/ links[1].query # links[2].query)

Converted(key) ==
    LET raw == pages_json.domains[key]
        entry == domain_dict[key]
    IN  IF FieldNames \subseteq raw.has
        THEN /\ entry.t = "Domain"
             /\ entry.class_ = raw.class_
             /\ entry.id_ = raw.id_
             /\ entry.value_.t = IF raw.value_.t = "None" THEN "None" ELSE "Pattern"
        ELSE entry = raw

\* C9: extract_domains never aborts: whatever the raw entries and the order of
\* iteration, no exception leaves it, every entry with the three field names is
\* converted to a Domain (value_ compiled when present, None when absent) and
\* every entry missing a field name is left as it was.
C9_ExtractNeverAborts ==
    /\ pc # "crashed"
    /\ \A key \in (DOMAIN domain_dict) \ todo : Converted(key)

(***************************************************************************)
(* The value search, checked under SpecEval.                               *)
(***************************************************************************)
\* str occurs in text as a substring
Contains(text, str) ==
    \E k \in 0..(Len(text) - Len(str)) : \A j \in 1..Len(str) : text[k + j] = str[j]

\* str occurs in text when each '.' of str stands for any one character
ContainsWild(text, str) ==
    \E k \in 0..(Len(text) - Len(str)) :
       \A j \in 1..Len(str) : str[j] = "." \/ text[k + j] = str[j]

\* the policy of link i has only value_ set
ValueOnlyPolicy(i) ==
    /\ HasDomain(i)
    /\ PolicyOf(i).class_ \in {PyNone, ""}
    /\ PolicyOf(i).id_ \in {PyNone, ""}
    /\ PolicyOf(i).value_.t = "Pattern"

\* the raw string v the pattern ".*" + v + ".*" was compiled from
RawValueOf(domain) == SubSeq(domain.value_.s, 3, Len(domain.value_.s) - 2)

TextNodes == {m \in 1..Len(Tree) : Tree[m].k = "text"}

C12_NeverStableOnOneSample ==
    /\ (pc \in {"get", "while"} /\ iters = 0) =>
          /\ page_hash # page_hash_new
          /\ \A dom \in Doms : GetPageHash(dom) \notin {page_hash, page_hash_new}
    /\ (pc \in {"sleep", "hash2"} /\ iters = 0) =>
          /\ Len(reads) = 1
          /\ page_hash = GetPageHash(reads[1])
          /\ page_hash_new # page_hash
    /\ pc \in {"source", "evaluate", "branch"} =>
          /\ driver.url = links[li]
          /\ ops.get = 1
          /\ iters >= 1
          /\ Len(reads) >= 2

\* the call returned after one pair of reads of a page that never changed
C12_Witness ==
    /\ pc = "evaluate"
    /\ iters = 1
    /\ Len(reads) = 2
    /\ reads[1] = reads[2]
    /\ page = PageSource(reads[1])

(***************************************************************************)
(* Termination of get_loaded_page, checked under SpecLive.                 *)
(***************************************************************************)
\* C13: if from some point on every read of the root markup gives the same
\* content and the session does not fail, and the loop's statements keep being
\* taken, get_loaded_page eventually returns (within two more iterations, which
\* the bound MaxIter must leave room for).
C13_SettledPageReturns ==
    (settled /\ InGetLoadedPage /\ iters + 2 <= MaxIter) ~> (pc = "evaluate")

\* the page changed during the first pair of reads, then settled, and the call
\* returned after the second pair
C13_Witness ==
    /\ settled
    /\ pc = "evaluate"
    /\ iters = 2
    /\ ~PairEqual(1)
    /\ PairEqual(2)

(***************************************************************************)
(* Properties of one call of check_stock within the run, checked under     *)
(* Spec.                                                                   *)
(***************************************************************************)
\* the result check_stock computes from the markup get_loaded_page returned
MatchOf(markup) == CheckStock(domain_dict, links[li], markup)

\* C14: matching never touches the live session.  Between get_loaded_page
\* returning and the outcome of check_stock no session operation occurs: the step
\* from the returned markup to the verdict performs no navigation and no read and
\* leaves the session's url and cookies alone, every session operation of the
\* call came before it, and the outcome is that of matching the returned markup.
C14_MatchingLeavesSessionAlone ==
    [][pc = "evaluate" =>
          /\ ops' = ops
          /\ driver' = driver
          /\ page' = page
          /\ ops.get = 1 /\ ops.source = 1 /\ ops.hash = 2 * iters
          /\ pc' = "branch" =>
                (MatchOf(page).raised = "" /\ (verdict' = "True" <=> MatchOf(page).value))
          /\ pc' = "crashed" => exc' = MatchOf(page).raised]_vars

\* a verdict of True after one navigation, two hash reads and one page-source read
C14_Witness ==
    /\ pc = "branch"
    /\ verdict = "True"
    /\ ops = [get |-> 1, hash |-> 2, sleep |-> 1, source |-> 1]

\* C15: a failure of the render session is fatal and not retried.  The step on
\* which a navigation or a read fails ends the run with no verdict for the link,
\* and after it nothing happens: no navigation, no read, no cookie reset, no
\* notification.
C15_SessionFailureIsFatal ==
    [][/\ (exc # "WebDriverException" /\ exc' = "WebDriverException") =>
             /\ pc \in {"get", "hash1", "hash2", "source"}
             /\ pc' = "crashed"
             /\ verdict = NoValue /\ verdict' = NoValue
             /\ UNCHANGED <<driver, ops, sent, li, sweep>>
       /\ exc = "WebDriverException" =>
             UNCHANGED <<pc, driver, ops, sent, verdict, li, sweep, page, reads>>]_vars

\* the session failed on a read of the second link, after a notification for the
\* first
C15_Witness ==
    /\ pc = "crashed"
    /\ exc = "WebDriverException"
    /\ li = 2
    /\ ops.hash >= 1
    /\ sent = <<[sweep |-> 1, li |-> 1]>>
    /\ verdict = NoValue

\* check_stock has come to its outcome: a verdict, or an exception of the matching
CheckOutcome == pc = "branch" \/ (pc = "crashed" /\ exc = "AttributeError")

\* C16: no snapshot is reused across checks.  Whenever check_stock has an
\* outcome, also for a host with a missing or an invalid policy, the call has done
\* one navigation, to its own link, at least one pair of reads and one read of the
\* page source, and a verdict is that of matching the markup this call read.
C16_EachCheckRendersAfresh ==
    CheckOutcome =>
        /\ ops.get = 1
        /\ driver.url = links[li]
        /\ [sweep |-> sweep, li |-> li] \in driver.cookies
        /\ iters >= 1 /\ ops.hash = 2 * iters
        /\ ops.source = 1
        /\ page = PageSource(driver.dom)
        /\ pc = "branch" => (verdict = "True" <=> MatchOf(page).value)

\* in the second sweep a link whose host has no policy got the verdict False, from
\* a page other than the one the first link of the sweep got
C16_Witness ==
    /\ pc = "branch"
    /\ sweep = 2
    /\ li = 2
    /\ Netloc(links[li]) \notin DOMAIN domain_dict
    /\ verdict = "False"
    /\ ops.get = 1
    /\ page = PageSource(InStock)

\* C17: the policy mapping is immutable after construction.  Once extract_domains
\* has returned no step of the run adds, removes or replaces an entry of the
\* mapping or changes a field of a policy.
C17_PoliciesImmutableAfterExtract ==
    [][pc # "extract" => domain_dict' = domain_dict]_vars

\* the second sweep has checked a link without a policy against the mapping
\* extract_domains built
C17_Witness ==
    /\ pc = "branch"
    /\ sweep = 2
    /\ li = 2
    /\ links[li].port # ""
    /\ domain_dict # pages_json.domains
    /\ DOMAIN domain_dict = {"a.com", "b.com"}

\* C18: each iteration of get_loaded_page's loop takes two new reads with one
\* sleep between them and compares only those two.  After n iterations the call
\* has done one navigation, 2n hash reads and n sleeps, and one read of the page
\* source once it has returned; the two hashes the loop test compares are those of
\* the two reads of the last iteration.
C18_TwoFreshReadsPerIteration ==
    /\ (pc \in {"while", "source"} \/ GlpReturned) =>
          /\ ops.get = 1
          /\ ops.hash = 2 * iters
          /\ ops.sleep = iters
          /\ ops.source = IF GlpReturned THEN 1 ELSE 0
          /\ Len(reads) = 2 * iters
          /\ iters >= 1 =>
                /\ page_hash = GetPageHash(reads[2 * iters - 1])
                /\ page_hash_new = GetPageHash(reads[2 * iters])
    /\ pc = "sleep" => (ops.hash = 2 * iters + 1 /\ ops.sleep = iters)
    /\ pc = "hash2" => (ops.hash = 2 * iters + 1 /\ ops.sleep = iters + 1)

\* the call returned after two iterations although the second read of the first
\* iteration equals the first read of the second
C18_Witness ==
    /\ GlpReturned
    /\ iters = 2
    /\ reads[1] # reads[2]
    /\ reads[2] = reads[3]
    /\ ops = [get |-> 1, hash |-> 4, sleep |-> 2, source |-> 1]

\* the notification [sweep, li] comes before [sweep2, li2] in the order of checks
ChecksInOrder(a, b) == a.sweep < b.sweep \/ (a.sweep = b.sweep /\ a.li < b.li)

\* C19: links are checked in their configured order in every sweep, and a
\* notification for a link is sent in a sweep iff check_stock returned True for it
\* in that sweep, before the check of the next link begins; nothing is remembered
\* between sweeps.
C19_NotifiedIffTrueInOrder ==
    [][/\ (pc = "branch" /\ pc' # pc) =>
             /\ pc' = "for"
             /\ sent' = IF verdict = "True"
                        THEN Append(sent, [sweep |-> sweep, li |-> li])
                        ELSE sent
       /\ pc # "branch" => sent' = sent
       /\ li' # li =>
             \/ pc = "for" /\ li < Len(links) /\ li' = li + 1 /\ sweep' = sweep /\ pc' = "get"
             \/ pc = "cookies" /\ li = Len(links) /\ li' = 0 /\ sweep' = sweep + 1
       /\ pc' = "get" => (pc = "for" /\ li' = li + 1)
       /\ sweep' # sweep => li' # li
       /\ \A j, k \in 1..Len(sent') : j < k => ChecksInOrder(sent'[j], sent'[k])]_vars

\* a link notified in the first sweep is notified again in the second, after a
\* later link of the first sweep was checked without a notification
C19_Witness ==
    /\ Len(links) = 2
    /\ sent = <<[sweep |-> 1, li |-> 1], [sweep |-> 2, li |-> 1]>>
    /\ sweep = 2
    /\ pc = "for"

=============================================================================
